---- MODULE Spec2Model ----
(***************************************************************************)
(* A model of BridgedClient (src/lib/irc/BridgedClient.js): one per-user   *)
(* IRC session.  The session's fields, the listener lists of its raw IRC   *)
(* client, its pending joinChannel / changeNick calls and their timers are *)
(* the state; each public method, timer callback, listener and upstream    *)
(* event is one action.  Time is abstracted: an armed timer may fire at    *)
(* any later step.  Strings the code inspects character by character       *)
(* (channel names, nicks) are sequences of one-character strings.          *)
(***************************************************************************)
EXTENDS Integers, Sequences, FiniteSets, TLC

----------------------------------------------------------------------------
(* Bounds of the model *)

\* _joinChannel invocations (public calls and timer retries together)
MaxJoins == 2
\* public joinChannel calls that wait on the connect or issue a JOIN
MaxJoinCalls == 2
\* changeNick calls that issue NICK
MaxNickCalls == 2
\* sendAction calls
MaxActs == 1
\* getOperators calls
MaxOps == 2
\* connect calls
MaxConnects == 2
\* length of the nicks handed to _getValidNick on its own
MaxNickInput == 4

(* Program constants *)

\* "if (attemptCount >= 5)"
MaxAttempts == 5
\* "let maxNickLen = 9; // RFC 1459 default"
DefaultNickLen == 9

----------------------------------------------------------------------------
(* Inputs: channel names, nicks, upstream events *)

ChA == <<"#", "a">>
ChB == <<"#", "b">>
Dm  == <<"b", "o">>
Channels == {ChA, ChB, Dm}
\* a channel local to its server
ChAmp == <<"&", "a">>

Me  == <<"m", "e">>
Neo == <<"n", "e", "o">>
Al  == <<"a", "l">>
Nicks == {Me, Neo, Al}
\* upstream "nick" events (old, new)
NickEvents == {<<Me, Neo>>, <<Me, Al>>, <<Al, Me>>}
\* nicks handed to changeNick: valid ones, and one that validation coerces
NickInputs == {Me, Neo, <<"1", "!">>}

Letters  == {"a", "e", "l", "m", "n", "o", "M"}
Digits   == {"1"}
Specials == {"_", "-"}

\* BridgedClient.illegalCharactersRegex = /[^A-Za-z0-9\]\[\^\\\{\}\-`_\|]/g
IsLegalChar(ch) == ch \in Letters \cup Digits \cup Specials

\* /^[A-Za-z]/.test(n)
StartsWithLetter(n) == Len(n) > 0 /\ n[1] \in Letters

\* /[#!&+]/.test(channel): the expression is not anchored
IsChannelName(c) == \E i \in 1..Len(c) : c[i] \in {"#", "!", "&", "+"}

\* channel.indexOf("#") === 0
StartsWithHash(c) == Len(c) > 0 /\ c[1] = "#"

\* server.isExcludedChannel(channel): the server's configured do-not-track set
ExcludedChannels == {ChB}
IsExcludedChannel(c) == c \in ExcludedChannels

\* failCodes of _joinChannel's failFn
JoinFailCodes == {"err_nosuchchannel", "err_toomanychannels", "err_channelisfull",
                  "err_inviteonlychan", "err_bannedfromchan", "err_badchannelkey",
                  "err_needreggednick"}

\* failCodes of changeNick's nickErrListener
NickFailCodes == {"err_banonchan", "err_nickcollision", "err_nicknameinuse",
                  "err_erroneusnickname", "err_nonicknamegiven", "err_eventnickchange",
                  "err_nicktoofast", "err_unavailresource"}

\* upstream "error" events: command "" is an error without a command,
\* hasArgs = FALSE one without args
ErrCommands == {"err_bannedfromchan", "err_nicknameinuse", "err_nosuchnick"}
ErrEvents ==
    [command : ErrCommands, hasArgs : {TRUE}, args : {<<ChA>>}]
    \cup {[command |-> "err_bannedfromchan", hasArgs |-> TRUE, args |-> <<ChB>>],
          [command |-> "", hasArgs |-> FALSE, args |-> << >>]}

ArgsContain(err, c) == \E i \in 1..Len(err.args) : err.args[i] = c

----------------------------------------------------------------------------
(* _getValidNick *)

\* a NICKLEN the server may advertise
AdvertisedNickLen == 3

\* client.supported.nicklength: has = FALSE when it is absent (not a number)
NickLengths == {[has |-> FALSE, n |-> 0], [has |-> TRUE, n |-> AdvertisedNickLen]}

\* what registration may give: the desired nick and no NICKLEN, or another
\* nick and a NICKLEN
PlainOutcome == [nick |-> Me, len |-> [has |-> FALSE, n |-> 0]]

ConnectOutcomes == {PlainOutcome,
                    [nick |-> Al, len |-> [has |-> TRUE, n |-> AdvertisedNickLen]]}

\* _getValidNick with the letter check before the check for illegal characters
GetValidNickLetterFirst(nickIn, throwOnInvalid, haveClient, nicklength) ==
    LET n1 == SelectSeq(nickIn, IsLegalChar)
        n2 == IF StartsWithLetter(n1) THEN n1 ELSE <<"M">> \o n1
        maxNickLen == IF nicklength.has THEN nicklength.n ELSE DefaultNickLen
        n3 == IF haveClient /\ Len(n2) > maxNickLen
              THEN SubSeq(n2, 1, maxNickLen) ELSE n2
    IN  IF throwOnInvalid /\ ~StartsWithLetter(n1)
            THEN [ok |-> FALSE, val |-> << >>, err |-> "must start with a letter"]
        ELSE IF throwOnInvalid /\ n1 # nickIn
            THEN [ok |-> FALSE, val |-> << >>, err |-> "contains illegal characters"]
        ELSE IF throwOnInvalid /\ haveClient /\ Len(n2) > maxNickLen
            THEN [ok |-> FALSE, val |-> << >>, err |-> "is too long"]
        ELSE [ok |-> TRUE, val |-> n3, err |-> ""]

\* _getValidNick without the "M" prefix
GetValidNickNoPrefix(nickIn, throwOnInvalid, haveClient, nicklength) ==
    LET n1 == SelectSeq(nickIn, IsLegalChar)
        maxNickLen == IF nicklength.has THEN nicklength.n ELSE DefaultNickLen
        n3 == IF haveClient /\ Len(n1) > maxNickLen
              THEN SubSeq(n1, 1, maxNickLen) ELSE n1
    IN  [ok |-> TRUE, val |-> n3, err |-> ""]

GetValidNick(nickIn, throwOnInvalid, haveClient, nicklength) ==
    LET n1 == SelectSeq(nickIn, IsLegalChar)
        n2 == IF StartsWithLetter(n1) THEN n1 ELSE <<"M">> \o n1
        maxNickLen == IF nicklength.has THEN nicklength.n ELSE DefaultNickLen
        n3 == IF haveClient /\ Len(n2) > maxNickLen
              THEN SubSeq(n2, 1, maxNickLen) ELSE n2
    IN  IF throwOnInvalid /\ n1 # nickIn
            THEN [ok |-> FALSE, val |-> << >>, err |-> "contains illegal characters"]
        ELSE IF throwOnInvalid /\ ~StartsWithLetter(n1)
            THEN [ok |-> FALSE, val |-> << >>, err |-> "must start with a letter"]
        ELSE IF throwOnInvalid /\ haveClient /\ Len(n2) > maxNickLen
            THEN [ok |-> FALSE, val |-> << >>, err |-> "is too long"]
        ELSE [ok |-> TRUE, val |-> n3, err |-> ""]

----------------------------------------------------------------------------
(* State *)

VARIABLES
    pcConnect,          \* position of the connect() coroutine
    inst,               \* this.inst: "none", or the instance "live" / "dead" (inst.dead)
    sockOpen,           \* the raw client's socket still delivers upstream events
    unsafeClient,       \* this.unsafeClient is set
    connectDefer,       \* this._connectDefer: "pending" | "resolved"
    instCreationFailed,
    explicitDisconnect,
    killed,             \* history: kill() has been called
    nick,               \* this.nick
    supported,          \* client.supported.nicklength
    chanList,           \* this.chanList
    chans,              \* keys of client.chans
    joins,              \* the _joinChannel invocations
    nickCalls,          \* the changeNick calls that issued NICK
    onError,            \* one-shot "error" listeners of the raw client, in order
    onNick,             \* one-shot "nick" listeners of the raw client, in order
    sentAfterKill,      \* history: a command was sent on the raw client after kill()
    cfg,                \* the session's configuration: isBot, and of its server
                        \* shouldSyncMembershipToIrc("initial") (mirror),
                        \* getIdleTimeout() (idleTimeout), getExpiryTimeSeconds()
                        \* (expiry)
    idleTimer,          \* this._idleTimeout: "none", "armed", "fired", "cleared"
    idleDisc,           \* history: the disconnect() calls made by the idle timer,
                        \* each by the seconds its reason names
    hooked,             \* the listeners of _onConnectionCreated are attached
    connects,           \* history: connect() calls
    acts,               \* the sendAction calls
    ops,                \* the getOperators calls
    cache,              \* this._cachedOperatorNicksInfo: per channel, the call
                        \* that stored the entry, 0 for none
    probe,              \* a call of _getValidNick and its result
    lastLeave,          \* history: the last leaveChannel call observed
    staleTimers,        \* idle timers still armed that this._idleTimeout no
                        \* longer names
    lastDisc            \* history: the last run of connInst.onDisconnect observed

\* the state the session's lifecycle, joins and nick changes do not touch
extraVars == <<cfg, idleDisc, connects, acts, ops, cache, probe, lastLeave,
               staleTimers, lastDisc>>

vars == <<pcConnect, inst, sockOpen, unsafeClient, connectDefer, instCreationFailed,
          explicitDisconnect, killed, nick, supported, chanList, chans, joins,
          nickCalls, onError, onNick, sentAfterKill, idleTimer, hooked, extraVars>>

sessionVars == <<pcConnect, inst, sockOpen, unsafeClient, connectDefer,
                 instCreationFailed, explicitDisconnect, killed, supported,
                 idleTimer, hooked>>

\* a user's session on a server without idle timeout and without expiry window
PlainConfig == [isBot |-> FALSE, mirror |-> FALSE, idleTimeout |-> 0, expiry |-> 0]

NoProbe == [called |-> FALSE]

NoLeave == [called |-> FALSE]

NoDisc == [called |-> FALSE]

\* the session after construction, whatever its configuration
Constructed ==
    /\ pcConnect = "fresh"
    /\ inst = "none"
    /\ sockOpen = FALSE
    /\ unsafeClient = FALSE
    /\ connectDefer = "pending"
    /\ instCreationFailed = FALSE
    /\ explicitDisconnect = FALSE
    /\ killed = FALSE
    /\ nick = GetValidNick(Me, FALSE, FALSE, [has |-> FALSE, n |-> 0]).val
    /\ supported = [has |-> FALSE, n |-> 0]
    /\ chanList = << >>
    /\ chans = {}
    /\ joins = << >>
    /\ nickCalls = << >>
    /\ onError = << >>
    /\ onNick = << >>
    /\ sentAfterKill = FALSE
    /\ idleTimer = "none"
    /\ idleDisc = << >>
    /\ hooked = FALSE
    /\ connects = 0
    /\ acts = << >>
    /\ ops = << >>
    /\ cache = [c \in Channels |-> 0]
    /\ lastLeave = NoLeave
    /\ staleTimers = 0
    /\ lastDisc = NoDisc

Init ==
    /\ Constructed
    /\ cfg = PlainConfig
    /\ probe = NoProbe

----------------------------------------------------------------------------
(* The part of the state the handlers below thread through their steps.    *)
(* thrown: a listener raised (a TypeError on the cleared raw-client        *)
(* handle), which ends the emit it was called from.  wire: the handler     *)
(* sent a command on the raw client.                                       *)

Cur == [joins |-> joins, nickCalls |-> nickCalls, chanList |-> chanList,
        onError |-> onError, onNick |-> onNick, wire |-> FALSE, thrown |-> FALSE]

Commit(E) ==
    /\ joins' = E.joins
    /\ nickCalls' = E.nickCalls
    /\ chanList' = E.chanList
    /\ onError' = E.onError
    /\ onNick' = E.onNick
    /\ sentAfterKill' = (sentAfterKill \/ (killed /\ E.wire))

\* a command on the raw client: JOIN, PART, NICK
Send(E) == [E EXCEPT !.wire = TRUE]

\* a promise is settled
Settled(st) == st \in {"resolved", "rejected"}

\* removeListener: drops the listener if it is attached
Without(ls, l) == SelectSeq(ls, LAMBDA x : x # l)

InSeq(ls, l) == \E i \in 1..Len(ls) : ls[i] = l

JoinL(j) == [k |-> "join", i |-> j]
NickL(n) == [k |-> "nick", i |-> n]

----------------------------------------------------------------------------
(* chanList *)

inChannel(c) == InSeq(chanList, c)

removeChannel(cl, c) == SelectSeq(cl, LAMBDA x : x # c)

addChannel(cl, c) == IF InSeq(cl, c) THEN cl ELSE Append(cl, c)

----------------------------------------------------------------------------
(* connect, disconnect, kill *)

\* _keepAlive: restarts the idle timer if the server has an idle timeout
KeepAlive(t) == IF cfg.idleTimeout > 0 THEN "armed" ELSE t

\* clearTimeout(this._idleTimeout)
ClearIdle(t) == IF t = "armed" THEN "cleared" ELSE t

\* _keepAlive that arms the new timer and leaves the old one alone
ReplacedTimerLeftArmed(t) == t

\* _keepAlive: "if (this._idleTimeout) { clearTimeout(this._idleTimeout); }",
\* what becomes of the timer the handle named
ReplacedTimer(t) == ClearIdle(t)

\* _keepAlive: the timers left armed without a handle, n of them before
KeepAliveStale(n, t) ==
    IF cfg.idleTimeout > 0 /\ ReplacedTimer(t) = "armed" THEN n + 1 ELSE n

\* connect() up to its first wait, on the identity generator
Connect ==
    /\ pcConnect = "fresh"
    /\ pcConnect' = "naming"
    /\ connects' = connects + 1
    /\ UNCHANGED <<inst, sockOpen, unsafeClient, connectDefer, instCreationFailed,
                   explicitDisconnect, killed, nick, supported, chanList, chans,
                   joins, nickCalls, onError, onNick, sentAfterKill, idleTimer,
                   hooked, cfg, idleDisc, acts, ops, cache, probe, lastLeave,
                   staleTimers, lastDisc>>

\* connect() called again once an earlier call has returned or thrown
ConnectAgain ==
    /\ pcConnect \in {"done", "failed"}
    /\ connects < MaxConnects
    /\ pcConnect' = "naming"
    /\ connects' = connects + 1
    /\ UNCHANGED <<inst, sockOpen, unsafeClient, connectDefer, instCreationFailed,
                   explicitDisconnect, killed, nick, supported, chanList, chans,
                   joins, nickCalls, onError, onNick, sentAfterKill, idleTimer,
                   hooked, cfg, idleDisc, acts, ops, cache, probe, lastLeave,
                   staleTimers, lastDisc>>

\* the identity is there: connect() up to its wait for
\* ConnectionInstance.create, which calls _onConnectionCreated at once
ConnectCreate ==
    /\ pcConnect = "naming"
    /\ pcConnect' = "connecting"
    /\ hooked' = TRUE
    /\ UNCHANGED <<inst, sockOpen, unsafeClient, connectDefer, instCreationFailed,
                   explicitDisconnect, killed, nick, supported, chanList, chans,
                   joins, nickCalls, onError, onNick, sentAfterKill, idleTimer,
                   extraVars>>

\* the continuations of _connectDefer.promise: the queued calls
ReleaseQueued(js) ==
    [j \in 1..Len(js) |-> IF js[j].st = "queued" THEN [js[j] EXCEPT !.st = "ready"]
                          ELSE js[j]]

\* create resolved: connect() from "this.inst = connInst" to its return.
\* The server may have assigned another nick and may advertise a NICKLEN.
ConnectSucceed(assigned, nicklen) ==
    /\ pcConnect = "connecting"
    /\ pcConnect' = "done"
    /\ inst' = "live"
    /\ sockOpen' = TRUE
    /\ unsafeClient' = TRUE
    /\ nick' = assigned
    /\ supported' = nicklen
    /\ connectDefer' = "resolved"
    /\ joins' = ReleaseQueued(joins)
    /\ acts' = ReleaseQueued(acts)
    /\ idleTimer' = KeepAlive(idleTimer)
    /\ staleTimers' = KeepAliveStale(staleTimers, idleTimer)
    /\ UNCHANGED <<instCreationFailed, explicitDisconnect, killed, chanList, chans,
                   nickCalls, onError, onNick, sentAfterKill, hooked, cfg,
                   idleDisc, connects, ops, cache, probe, lastLeave, lastDisc>>

\* a step of connect() threw: the catch block
ConnectFail ==
    /\ pcConnect \in {"naming", "connecting"}
    /\ pcConnect' = "failed"
    /\ instCreationFailed' = TRUE
    /\ UNCHANGED <<inst, sockOpen, unsafeClient, connectDefer, explicitDisconnect,
                   killed, nick, supported, chanList, chans, joins, nickCalls,
                   onError, onNick, sentAfterKill, idleTimer, hooked, extraVars>>

\* ConnectionInstance.disconnect: the instance becomes dead; the socket closes later
InstDisconnect(i) == IF i = "live" THEN "dead" ELSE i

\* connInst.onDisconnect, called once when the instance i becomes dead
OnDisconnect(i, t) == IF i = "live" THEN ClearIdle(t) ELSE t

Disconnect ==
    /\ explicitDisconnect' = TRUE
    /\ inst' = InstDisconnect(inst)
    /\ idleTimer' = OnDisconnect(inst, idleTimer)
    /\ UNCHANGED <<pcConnect, sockOpen, unsafeClient, connectDefer, instCreationFailed,
                   killed, nick, supported, chanList, chans, joins, nickCalls,
                   onError, onNick, sentAfterKill, hooked, extraVars>>

Kill ==
    /\ unsafeClient' = FALSE
    /\ killed' = TRUE
    /\ explicitDisconnect' = TRUE
    /\ inst' = InstDisconnect(inst)
    /\ idleTimer' = OnDisconnect(inst, idleTimer)
    /\ UNCHANGED <<pcConnect, sockOpen, connectDefer, instCreationFailed, nick,
                   supported, chanList, chans, joins, nickCalls, onError, onNick,
                   sentAfterKill, hooked, extraVars>>

\* the expiry of the idle timer leaves the session alone
IdleExemptMirrorOnly(c) == c.mirror

\* "if (self.server.shouldSyncMembershipToIrc("initial")) return;
\*  if (self.isBot) return;"
IdleExempt(c) == c.mirror \/ c.isBot

\* the idle timer fires: the callback _keepAlive armed
IdleExpiry ==
    /\ idleTimer = "armed"
    /\ idleTimer' = "fired"
    /\ IF IdleExempt(cfg)
       THEN UNCHANGED <<explicitDisconnect, inst, idleDisc>>
       ELSE /\ explicitDisconnect' = TRUE
            /\ inst' = InstDisconnect(inst)
            /\ idleDisc' = Append(idleDisc, cfg.idleTimeout)
    /\ UNCHANGED <<pcConnect, sockOpen, unsafeClient, connectDefer, instCreationFailed,
                   killed, nick, supported, chanList, chans, joins, nickCalls,
                   onError, onNick, sentAfterKill, hooked, cfg, connects, acts,
                   ops, cache, probe, lastLeave, staleTimers, lastDisc>>

IsDeadWhileOpen == instCreationFailed \/ (inst = "dead" /\ sockOpen)

\* isDead()
IsDead == instCreationFailed \/ inst = "dead"

\* the server or the network ends the connection
UpstreamDisconnect ==
    /\ inst = "live"
    /\ inst' = "dead"
    /\ sockOpen' = FALSE
    /\ idleTimer' = OnDisconnect(inst, idleTimer)
    /\ UNCHANGED <<pcConnect, unsafeClient, connectDefer, instCreationFailed,
                   explicitDisconnect, killed, nick, supported, chanList, chans,
                   joins, nickCalls, onError, onNick, sentAfterKill, hooked,
                   extraVars>>

\* the reasons the connection instance gives for an upstream disconnect
DisconnectReasons == {"banned", "net_error"}

\* connInst.onDisconnect that emits before it records the reason
OnDisconnectEmitFirst(reason, explicit, t) ==
    LET st0 == [disconnectReason |-> "", explicitDisconnect |-> explicit,
                idleTimer |-> t]
        st1 == [st0 EXCEPT !.disconnectReason = reason]
        st2 == IF reason = "banned" THEN [st1 EXCEPT !.explicitDisconnect = TRUE]
               ELSE st1
        st3 == [st2 EXCEPT !.idleTimer = ClearIdle(@)]
    IN  [final |-> st3,
         out |-> <<[ev |-> "client-disconnected", at |-> st0],
                   [ev |-> "metadata", at |-> st2]>>]

\* connInst.onDisconnect(reason), statement by statement: final is the
\* session's state when the handler returns, out what it emitted and sent,
\* each with the state the session had then
OnDisconnectRun(reason, explicit, t) ==
    LET st0 == [disconnectReason |-> "", explicitDisconnect |-> explicit,
                idleTimer |-> t]
        st1 == [st0 EXCEPT !.disconnectReason = reason]
        st2 == IF reason = "banned" THEN [st1 EXCEPT !.explicitDisconnect = TRUE]
               ELSE st1
        st3 == [st2 EXCEPT !.idleTimer = ClearIdle(@)]
    IN  [final |-> st3,
         out |-> <<[ev |-> "client-disconnected", at |-> st2],
                   [ev |-> "metadata", at |-> st2]>>]

\* the server or the network ends the connection for a reason, with the
\* run of connInst.onDisconnect recorded
UpstreamDisconnectFor(reason) ==
    LET h == OnDisconnectRun(reason, explicitDisconnect, idleTimer)
    IN  /\ inst = "live"
        /\ inst' = "dead"
        /\ sockOpen' = FALSE
        /\ explicitDisconnect' = h.final.explicitDisconnect
        /\ idleTimer' = h.final.idleTimer
        /\ lastDisc' = [called |-> TRUE, reason |-> reason, before |-> idleTimer,
                        final |-> h.final, out |-> h.out]
        /\ UNCHANGED <<pcConnect, unsafeClient, connectDefer, instCreationFailed,
                       killed, nick, supported, chanList, chans, joins, nickCalls,
                       onError, onNick, sentAfterKill, hooked, cfg, idleDisc,
                       connects, acts, ops, cache, probe, lastLeave, staleTimers>>

\* the socket of a disconnected instance closes: no upstream event follows
SocketClosed ==
    /\ inst = "dead"
    /\ sockOpen
    /\ sockOpen' = FALSE
    /\ UNCHANGED <<pcConnect, inst, unsafeClient, connectDefer, instCreationFailed,
                   explicitDisconnect, killed, nick, supported, chanList, chans,
                   joins, nickCalls, onError, onNick, sentAfterKill, idleTimer,
                   hooked, extraVars>>

----------------------------------------------------------------------------
(* _joinChannel.  One record per invocation that waits on the connect or   *)
(* issues a JOIN: chan, attempt (attemptCount), st (its promise: "queued"  *)
(* on _connectDefer, "ready" once that resolved, "pending", "resolved",    *)
(* "rejected"), how (what settled it: the rejection's message, or what     *)
(* resolved it), timer (the round timer: "none", "armed", "fired"), sent   *)
(* (JOIN issued), cb (the JOIN callback is outstanding), told (history:    *)
(* its failFn emitted join-error and sent the force-notice status line),   *)
(* parent (the invocation whose timer started this retry, 0 for a public   *)
(* call).  The key only changes the text of the JOIN and is left out.      *)

NewJoin(c, attempt, parent) ==
    [chan |-> c, attempt |-> attempt, st |-> "pending", how |-> "",
     timer |-> "none", sent |-> FALSE, cb |-> FALSE, told |-> FALSE,
     parent |-> parent]

\* defer.resolve / defer.reject of invocation j, and of the invocations
\* waiting on it through .done(resolve, reject); a settled promise ignores both
RECURSIVE SettleJoin(_, _, _, _)
SettleJoin(E, j, st, how) ==
    IF E.joins[j].st # "pending" THEN E
    ELSE LET E1 == [E EXCEPT !.joins[j].st = st, !.joins[j].how = how]
         IN  IF E.joins[j].parent = 0 THEN E1
             ELSE SettleJoin(E1, E.joins[j].parent, st, how)

\* the checks of _joinChannel without the one on the raw client's channel set
JoinRouteSkipJoined(c) ==
    IF ~unsafeClient
        THEN (IF connectDefer = "pending" THEN "queue" ELSE "noclient")
    ELSE IF ~IsChannelName(c) THEN "pm"
    ELSE IF IsExcludedChannel(c) THEN "excluded"
    ELSE "join"

\* the checks of _joinChannel before it issues a JOIN
JoinRoute(c) ==
    IF ~unsafeClient
        THEN (IF connectDefer = "pending" THEN "queue" ELSE "noclient")
    ELSE IF c \in chans THEN "joined"
    ELSE IF ~IsChannelName(c) THEN "pm"
    ELSE IF IsExcludedChannel(c) THEN "excluded"
    ELSE "join"

\* what a _joinChannel that issues no JOIN returns
JoinImmediate(r) ==
    CASE r = "noclient" -> [st |-> "rejected", how |-> "No client"]
      [] r = "joined"   -> [st |-> "resolved", how |-> "joined"]
      [] r = "pm"       -> [st |-> "resolved", how |-> "pm"]
      [] r = "excluded" -> [st |-> "rejected", how |-> "do-not-track"]
      [] OTHER          -> [st |-> "pending", how |-> ""]

\* from "this._addChannel(channel)" to the JOIN
IssueJoin(E, j) ==
    LET c == E.joins[j].chan
    IN  Send([E EXCEPT !.chanList = addChannel(@, c),
                       !.onError = Append(@, JoinL(j)),
                       !.joins[j].timer = "armed",
                       !.joins[j].sent = TRUE,
                       !.joins[j].cb = TRUE])

\* the body of _joinChannel for the pending invocation j
RunJoin(E, j) ==
    LET c == E.joins[j].chan
        r == JoinRoute(c)
    IN  CASE r = "queue" -> [E EXCEPT !.joins[j].st = "queued"]
          [] r = "join"  -> IssueJoin(E, j)
          [] OTHER       -> SettleJoin(E, j, JoinImmediate(r).st, JoinImmediate(r).how)

\* joinChannel(channel, key).  A call that resolves or rejects at once
\* leaves no record.  The model holds at most cap invocations, calls of them
\* public calls.
JoinChannelIn(c, cap, calls) ==
    LET r == JoinRoute(c)
        E0 == Cur
        j == Len(joins) + 1
    IN  /\ r \in {"queue", "join"} =>
               /\ Len(joins) < cap
               /\ Cardinality({i \in 1..Len(joins) : joins[i].parent = 0}) < calls
        /\ Commit(IF r \in {"queue", "join"}
                  THEN RunJoin([E0 EXCEPT !.joins = Append(@, NewJoin(c, 1, 0))], j)
                  ELSE E0)
        /\ UNCHANGED <<sessionVars, nick, chans, extraVars>>

JoinChannel(c) == JoinChannelIn(c, MaxJoins, MaxJoinCalls)

\* the continuation of _connectDefer.promise.then for the queued invocation j
JoinAfterConnect(j) ==
    /\ joins[j].st = "ready"
    /\ Commit(RunJoin([Cur EXCEPT !.joins[j].st = "pending"], j))
    /\ UNCHANGED <<sessionVars, nick, chans, extraVars>>

\* "Object.keys(this.unsafeClient.chans).indexOf(channel) !== -1" of the timer
SilentlyJoined(c) == c \in chans

\* "attemptCount >= 5"
OutOfTries(attempt) == attempt >= MaxAttempts

\* what the round timer of invocation j does
JoinTimerStep(E, j) ==
    LET c == E.joins[j].chan
        child == Len(E.joins) + 1
    IN  IF ~unsafeClient THEN E
        ELSE IF E.joins[j].st = "pending" /\ InSeq(E.chanList, c)
        THEN IF SilentlyJoined(c) THEN SettleJoin(E, j, "resolved", "timer")
             ELSE IF OutOfTries(E.joins[j].attempt)
                  THEN SettleJoin(E, j, "rejected", "multiple tries")
             ELSE RunJoin([E EXCEPT !.joins = Append(@,
                              NewJoin(c, E.joins[j].attempt + 1, j))], child)
        ELSE E

\* the round timer of invocation j fires.  The timer of a settled invocation
\* finds its promise settled and does nothing: that step is not taken.
JoinTimerIn(j, cap) ==
    /\ joins[j].timer = "armed"
    /\ joins[j].st = "pending"
    /\ LET E == JoinTimerStep([Cur EXCEPT !.joins[j].timer = "fired"], j)
       IN  /\ Len(E.joins) <= cap
           /\ Commit(E)
    /\ UNCHANGED <<sessionVars, nick, chans, extraVars>>

JoinTimer(j) == JoinTimerIn(j, MaxJoins)

\* the callback of unsafeClient.join for invocation j
JoinCallbackFn(E, j) ==
    SettleJoin([E EXCEPT !.joins[j].cb = FALSE, !.onError = Without(@, JoinL(j))],
               j, "resolved", "callback")

RECURSIVE JoinCallbacks(_, _, _)
JoinCallbacks(E, c, j) ==
    IF j > Len(E.joins) THEN E
    ELSE JoinCallbacks(IF E.joins[j].chan = c /\ E.joins[j].cb
                       THEN JoinCallbackFn(E, j) ELSE E,
                       c, j + 1)

\* the raw client, in channel c, sees a JOIN of c: every outstanding callback
\* of a JOIN of c is called, in the order the JOINs were issued
JoinCallback(c) ==
    /\ sockOpen
    /\ c \in chans
    /\ \E j \in 1..Len(joins) : joins[j].chan = c /\ joins[j].cb
    /\ Commit(JoinCallbacks(Cur, c, 1))
    /\ UNCHANGED <<sessionVars, nick, chans, extraVars>>

\* the raw client learns that it is in channel c, or no longer in it
ServerJoined(c) ==
    /\ sockOpen
    /\ c \notin chans
    /\ \E j \in 1..Len(joins) : joins[j].chan = c /\ joins[j].sent
    /\ chans' = chans \cup {c}
    /\ UNCHANGED <<sessionVars, nick, chanList, joins, nickCalls, onError, onNick,
                   sentAfterKill, extraVars>>

ServerParted(c) ==
    /\ sockOpen
    /\ c \in chans
    /\ chans' = chans \ {c}
    /\ UNCHANGED <<sessionVars, nick, chanList, joins, nickCalls, onError, onNick,
                   sentAfterKill, extraVars>>

\* _leaveChannel(channel, reason), from its first line to its return
LeaveIn(E0, c) ==
    IF inst # "live" \/ ~StartsWithHash(c) \/ ~inChannel(c)
    THEN E0
    ELSE IF unsafeClient
         THEN Send([E0 EXCEPT !.chanList = removeChannel(@, c)])
         ELSE [E0 EXCEPT !.chanList = removeChannel(@, c)]

\* leaveChannel(channel, reason)
LeaveChannel(c) ==
    /\ Commit(LeaveIn(Cur, c))
    /\ UNCHANGED <<sessionVars, nick, chans, extraVars>>

\* leaveChannel(channel, reason), with the call recorded: live and tracked
\* tell what the call found, removed and part what it did
LeaveObserved(c) ==
    /\ Commit(LeaveIn(Cur, c))
    /\ lastLeave' = [called |-> TRUE, chan |-> c, live |-> inst = "live",
                     tracked |-> inChannel(c),
                     removed |-> ~InSeq(LeaveIn(Cur, c).chanList, c),
                     part |-> LeaveIn(Cur, c).wire]
    /\ UNCHANGED <<sessionVars, nick, chans, cfg, idleDisc, connects, acts, ops,
                   cache, probe, staleTimers, lastDisc>>

----------------------------------------------------------------------------
(* changeNick.  One record per call that issued NICK: valid (validNick),   *)
(* old (this.nick at the call), st (its promise), by (the outcome that     *)
(* settled it), err (the rejected command), timer (the 10 s timer:         *)
(* "armed", "cleared", "fired"), own (history: the nick event that resolved  *)
(* it was the session's own change from old to valid, and this.nick was    *)
(* valid then).                                                            *)

NewNickCall(valid) ==
    [valid |-> valid, old |-> nick, st |-> "pending", by |-> "", err |-> "",
     timer |-> "armed", own |-> FALSE]

\* clearTimeout(timeoutId)
ClearTimer(t) == IF t = "armed" THEN "cleared" ELSE t

\* changeNick(newNick, throwOnInvalid).  A call that resolves or rejects at
\* once (an invalid nick, the nick the session has, no raw client) issues no
\* NICK and leaves no record.
ChangeNick(newNick, throwOnInvalid) ==
    LET v == GetValidNick(newNick, throwOnInvalid, unsafeClient, supported)
        E0 == Cur
        n == Len(nickCalls) + 1
    IN  /\ (v.ok /\ v.val # nick /\ unsafeClient) => Len(nickCalls) < MaxNickCalls
        /\ Commit(IF ~v.ok \/ v.val = nick \/ ~unsafeClient THEN E0
                  ELSE Send([E0 EXCEPT !.nickCalls = Append(@, NewNickCall(v.val)),
                                       !.onNick = Append(@, n),
                                       !.onError = Append(@, NickL(n))]))
        /\ UNCHANGED <<sessionVars, nick, chans, extraVars>>

\* resolve / reject of call n; a settled promise ignores both
SettleNick(E, n, st, by, err) ==
    IF E.nickCalls[n].st # "pending" THEN E
    ELSE [E EXCEPT !.nickCalls[n].st = st, !.nickCalls[n].by = by,
                   !.nickCalls[n].err = err]

\* the 10 s timer of call n fires
NickTimeout(n) ==
    /\ nickCalls[n].timer = "armed"
    /\ LET E0 == [Cur EXCEPT !.nickCalls[n].timer = "fired"]
           E1 == IF unsafeClient
                 THEN [E0 EXCEPT !.onNick = Without(@, n),
                                 !.onError = Without(@, NickL(n))]
                 ELSE E0
       IN  Commit(SettleNick(E1, n, "rejected", "timeout", "Timed out"))
    /\ UNCHANGED <<sessionVars, nick, chans, extraVars>>

\* nickListener of call n, called by its once-wrapper with the event (old, new),
\* which it does not look at; curNick is this.nick after the permanent
\* listener ran
NickListener(E, n, old, new, curNick) ==
    LET E1 == [E EXCEPT !.nickCalls[n].timer = ClearTimer(@)]
    IN  IF ~unsafeClient THEN [E1 EXCEPT !.thrown = TRUE]
        ELSE SettleNick([E1 EXCEPT !.onError = Without(@, NickL(n)),
                                   !.nickCalls[n].own =
                                       /\ E.nickCalls[n].st = "pending"
                                       /\ old = E.nickCalls[n].old
                                       /\ new = E.nickCalls[n].valid
                                       /\ curNick = E.nickCalls[n].valid],
                        n, "resolved", "nick", "")

\* nickErrListener of call n, called by its once-wrapper
NickErrListener(E, n, err) ==
    IF err.command = "" THEN E
    ELSE IF err.command \in NickFailCodes
    THEN LET E1 == [E EXCEPT !.nickCalls[n].timer = ClearTimer(@)]
         IN  IF ~unsafeClient THEN [E1 EXCEPT !.thrown = TRUE]
             ELSE SettleNick([E1 EXCEPT !.onNick = Without(@, n)],
                             n, "rejected", "error", err.command)
    ELSE E

\* failFn of invocation j, called by its once-wrapper
FailFn(E, j, err) ==
    IF ~err.hasArgs THEN E
    ELSE IF err.command \in JoinFailCodes /\ ArgsContain(err, E.joins[j].chan)
    THEN SettleJoin([E EXCEPT !.onError = Without(@, JoinL(j)),
                              !.joins[j].told = TRUE],
                    j, "rejected", err.command)
    ELSE E

\* emit("error", err) to the one-shot listeners ls, in order: each once-wrapper
\* detaches its listener and then calls it; a listener that throws ends the emit
RECURSIVE EmitError(_, _, _)
EmitError(E, ls, err) ==
    IF ls = << >> \/ E.thrown THEN E
    ELSE LET l == Head(ls)
             E1 == [E EXCEPT !.onError = Without(@, l)]
         IN  EmitError(IF l.k = "join" THEN FailFn(E1, l.i, err)
                       ELSE NickErrListener(E1, l.i, err),
                       Tail(ls), err)

\* the raw client emits "error".  The permanent listener connect() installed
\* runs first; it only sends a status line to the event broker.
UpstreamError(err) ==
    /\ sockOpen
    /\ Commit(EmitError(Cur, onError, err))
    /\ UNCHANGED <<sessionVars, nick, chans, extraVars>>

RECURSIVE EmitNick(_, _, _, _, _)
EmitNick(E, ls, old, new, curNick) ==
    IF ls = << >> \/ E.thrown THEN E
    ELSE EmitNick(NickListener([E EXCEPT !.onNick = Without(@, Head(ls))],
                               Head(ls), old, new, curNick),
                  Tail(ls), old, new, curNick)

\* the raw client emits "nick": first the permanent listener connect()
\* installed, then the one-shot listeners
UpstreamNick(old, new) ==
    /\ sockOpen
    /\ old # new
    /\ LET curNick == IF old = nick THEN new ELSE nick
       IN  /\ nick' = curNick
           /\ Commit(EmitNick(Cur, onNick, old, new, curNick))
    /\ UNCHANGED <<sessionVars, chans, extraVars>>

----------------------------------------------------------------------------
(* sendAction.  One record per call: type (action.type), chan              *)
(* (room.channel), ts (action.ts is set), st ("queued" on _connectDefer,   *)
(* "ready" once that resolved, "joining" while it waits for its            *)
(* _joinChannel, "resolved", "rejected", "stuck" when its continuation     *)
(* threw and its promise is never settled), join (its _joinChannel         *)
(* invocation, 0 if that returned at once), jres (what it returned at      *)
(* once), sent (the command it sent on the raw client), late (history:     *)
(* its expiry deadline had passed when the join completed).                *)

ActionTypes == {"message", "notice", "emote", "topic", "sticker"}

\* sendAction: the message type it passes to _sendMessage
MsgType(type) ==
    CASE type = "message" -> "message"
      [] type = "notice"  -> "notice"
      [] type = "emote"   -> "action"
      [] OTHER            -> ""

\* _sendMessage: the command sent for a message type
MsgCommand(msgType) ==
    CASE msgType = "action"  -> "action"
      [] msgType = "notice"  -> "notice"
      [] msgType = "message" -> "say"
      [] OTHER               -> ""

\* "if (action.ts && this.server.getExpiryTimeSeconds())": expiryTs is set
HasExpiry(ts) == ts /\ cfg.expiry > 0

\* one record per sendAction call: expiryTs tells whether the call computed
\* a deadline, late (history) whether the deadline had passed when the
\* action's join had settled
NewAct(type, c, expiryTs) ==
    [type |-> type, chan |-> c, expiryTs |-> expiryTs, st |-> "joining", join |-> 0,
     jres |-> "", sent |-> "", late |-> FALSE]

\* the call of _joinChannel(room.channel) made for action a
ActCallsJoin(E, as, a) ==
    LET c == as[a].chan
        r == JoinRoute(c)
        j == Len(E.joins) + 1
    IN  IF r \in {"queue", "join"}
        THEN [E  |-> RunJoin([E EXCEPT !.joins = Append(@, NewJoin(c, 1, 0))], j),
              as |-> [as EXCEPT ![a].st = "joining", ![a].join = j]]
        ELSE [E  |-> E,
              as |-> [as EXCEPT ![a].st = "joining", ![a].jres = JoinImmediate(r).st]]

\* sendAction(room, action).  The model holds at most MaxActs calls.
SendAction(type, c, ts) ==
    LET a == Len(acts) + 1
        as == Append(acts, NewAct(type, c, HasExpiry(ts)))
        R == IF type = "topic" THEN ActCallsJoin(Cur, as, a)
             ELSE IF MsgType(type) = ""
                  THEN [E |-> Cur, as |-> [as EXCEPT ![a].st = "rejected"]]
             ELSE [E |-> Cur,
                   as |-> [as EXCEPT ![a].st = IF connectDefer = "pending"
                                               THEN "queued" ELSE "ready"]]
    IN  /\ Len(acts) < MaxActs
        /\ Len(R.E.joins) <= MaxJoins
        /\ idleTimer' = KeepAlive(idleTimer)
        /\ staleTimers' = KeepAliveStale(staleTimers, idleTimer)
        /\ Commit(R.E)
        /\ acts' = R.as
        /\ UNCHANGED <<pcConnect, inst, sockOpen, unsafeClient, connectDefer,
                       instCreationFailed, explicitDisconnect, killed, supported,
                       hooked, nick, chans, cfg, idleDisc, connects, ops, cache,
                       probe, lastLeave, lastDisc>>

\* _sendMessage: the continuation of _connectDefer.promise.then for action a
ActJoin(a) ==
    /\ acts[a].st = "ready"
    /\ LET R == ActCallsJoin(Cur, acts, a)
       IN  /\ Len(R.E.joins) <= MaxJoins
           /\ Commit(R.E)
           /\ acts' = R.as
    /\ UNCHANGED <<sessionVars, nick, chans, cfg, idleDisc, connects, ops, cache,
                   probe, lastLeave, staleTimers, lastDisc>>

\* the state of the promise action a got from _joinChannel
ActJoinState(a) ==
    IF acts[a].join = 0 THEN acts[a].jres ELSE joins[acts[a].join].st

JoinSucceededOrNot(st) == st \in {"resolved", "rejected"}

\* the success continuation of the join runs
JoinSucceeded(st) == st = "resolved"

\* "if (expiryTs && Date.now() > expiryTs)"
Expired(expiryTs, passed) == expiryTs /\ passed

\* the continuation of the join of action a: passed tells whether the
\* action's deadline, if it has one, is in the past
ActDone(a, passed) ==
    /\ acts[a].st = "joining"
    /\ Settled(ActJoinState(a))
    /\ acts[a].expiryTs \/ ~passed
    /\ LET late == Expired(acts[a].expiryTs, passed)
           x == [acts[a] EXCEPT !.late = late]
       IN  acts' = [acts EXCEPT ![a] =
               IF ~JoinSucceeded(ActJoinState(a))
                   THEN [acts[a] EXCEPT !.st = "rejected"]
               ELSE IF x.type = "topic"
                   THEN IF unsafeClient
                        THEN [x EXCEPT !.st = "resolved", !.sent = "TOPIC"]
                        ELSE [x EXCEPT !.st = "rejected"]
               ELSE IF late THEN [x EXCEPT !.st = "resolved"]
               ELSE IF unsafeClient
                   THEN [x EXCEPT !.st = "resolved", !.sent = MsgCommand(MsgType(x.type))]
               ELSE [x EXCEPT !.st = "stuck"]]
    /\ sentAfterKill' = (sentAfterKill \/ (killed /\ acts'[a].sent # ""))
    /\ UNCHANGED <<sessionVars, nick, chans, chanList, joins, nickCalls, onError,
                   onNick, cfg, idleDisc, connects, ops, cache, probe, lastLeave,
                   staleTimers, lastDisc>>

----------------------------------------------------------------------------
(* getOperators.  One record per call: chan, cached (opts.cacheDurationMs  *)
(* is set), st ("joining", "names", "leaving", then the call's promise),   *)
(* join / jres (its _joinChannel invocation, or what that returned at      *)
(* once), part (its _leaveChannel sent PART), hit (the cache entry it      *)
(* returned), timer (its invalidation timer), wasIn and inAfter (history:  *)
(* the channel was in chanList at the call, and when the call settled).    *)
(* A cache entry is named by the call that stored it.                      *)

NewOp(c, cached) ==
    [chan |-> c, cached |-> cached, st |-> "joining", join |-> 0, jres |-> "",
     part |-> FALSE, hit |-> 0, timer |-> "none", wasIn |-> inChannel(c),
     wasJoined |-> (inChannel(c) /\ c \in chans), inAfter |-> FALSE]

\* getOperators(channel, opts) up to the return of its _joinChannel call
GetOperators(c, cached) ==
    LET o == Len(ops) + 1
        j == Len(joins) + 1
        r == JoinRoute(c)
    IN  /\ Len(ops) < MaxOps
        /\ IF cached /\ cache[c] # 0
           THEN /\ Commit(Cur)
                /\ ops' = Append(ops, [NewOp(c, cached) EXCEPT
                                           !.st = "resolved", !.hit = cache[c],
                                           !.inAfter = inChannel(c)])
           ELSE IF r \in {"queue", "join"}
           THEN /\ Len(joins) < MaxJoins
                /\ Commit(RunJoin([Cur EXCEPT !.joins = Append(@, NewJoin(c, 1, 0))], j))
                /\ ops' = Append(ops, [NewOp(c, cached) EXCEPT !.join = j])
           ELSE /\ Commit(Cur)
                /\ ops' = Append(ops, [NewOp(c, cached) EXCEPT
                                           !.jres = JoinImmediate(r).st])
        /\ UNCHANGED <<sessionVars, nick, chans, cfg, idleDisc, connects, acts,
                       cache, probe, lastLeave, staleTimers, lastDisc>>

\* the state of the promise call o got from _joinChannel
OpJoinState(o) ==
    IF ops[o].join = 0 THEN ops[o].jres ELSE joins[ops[o].join].st

\* the join of call o has settled: getNicks sends NAMES, or the call rejects
OpJoined(o) ==
    /\ ops[o].st = "joining"
    /\ Settled(OpJoinState(o))
    /\ ops' = [ops EXCEPT ![o] =
           IF OpJoinState(o) = "resolved" /\ unsafeClient
           THEN [ops[o] EXCEPT !.st = "names"]
           ELSE [ops[o] EXCEPT !.st = "rejected",
                               !.inAfter = inChannel(ops[o].chan)]]
    /\ sentAfterKill' = (sentAfterKill \/ (killed /\ ops'[o].st = "names"))
    /\ UNCHANGED <<sessionVars, nick, chans, chanList, joins, nickCalls, onError,
                   onNick, cfg, idleDisc, connects, acts, cache, probe, lastLeave,
                   staleTimers, lastDisc>>

\* the reply to NAMES arrives: _leaveChannel(channel) is called
OpNames(o) ==
    /\ ops[o].st = "names"
    /\ sockOpen
    /\ Commit(LeaveIn(Cur, ops[o].chan))
    /\ ops' = [ops EXCEPT ![o].st = "leaving",
                          ![o].part = LeaveIn(Cur, ops[o].chan).wire]
    /\ UNCHANGED <<sessionVars, nick, chans, cfg, idleDisc, connects, acts, cache,
                   probe, lastLeave, staleTimers, lastDisc>>

\* getNicks: ".timeout(5000)" ends the wait for the reply
OpNamesTimeout(o) ==
    /\ ops[o].st = "names"
    /\ ops' = [ops EXCEPT ![o].st = "rejected",
                          ![o].inAfter = inChannel(ops[o].chan)]
    /\ UNCHANGED <<sessionVars, nick, chans, chanList, joins, nickCalls, onError,
                   onNick, sentAfterKill, cfg, idleDisc, connects, acts, cache,
                   probe, lastLeave, staleTimers, lastDisc>>

\* the leave of call o is over: the operators are computed and, for a
\* caching call, stored.  prefixed: some nick has a prefix other than "@",
\* which the raw client is asked about.
OpLeft(o, prefixed) ==
    /\ ops[o].st = "leaving"
    /\ ops[o].part => sockOpen
    /\ IF prefixed /\ ~unsafeClient
       THEN /\ ops' = [ops EXCEPT ![o].st = "rejected",
                                  ![o].inAfter = inChannel(ops[o].chan)]
            /\ UNCHANGED cache
       ELSE /\ ops' = [ops EXCEPT ![o].st = "resolved",
                                  ![o].inAfter = inChannel(ops[o].chan),
                                  ![o].timer = IF ops[o].cached THEN "armed" ELSE @]
            /\ cache' = IF ops[o].cached THEN [cache EXCEPT ![ops[o].chan] = o]
                        ELSE cache
    /\ UNCHANGED <<sessionVars, nick, chans, chanList, joins, nickCalls, onError,
                   onNick, sentAfterKill, cfg, idleDisc, connects, acts, probe,
                   lastLeave, staleTimers, lastDisc>>

\* the invalidation timer of call o fires:
\* "delete this._cachedOperatorNicksInfo[channel]"
CacheTimer(o) ==
    /\ ops[o].timer = "armed"
    /\ ops' = [ops EXCEPT ![o].timer = "fired"]
    /\ cache' = [cache EXCEPT ![ops[o].chan] = 0]
    /\ UNCHANGED <<sessionVars, nick, chans, chanList, joins, nickCalls, onError,
                   onNick, sentAfterKill, cfg, idleDisc, connects, acts, probe,
                   lastLeave, staleTimers, lastDisc>>

----------------------------------------------------------------------------
(* _getValidNick on its own: probe holds the arguments of one call (nick,  *)
(* throwOnInvalid), what the call finds in the session (client: the raw    *)
(* client is set, len: its supported.nicklength) and what it returns.      *)

\* a letter, a digit, a legal special character, an illegal character
NickAlphabet == {"a", "1", "_", "!"}

NickStrings == UNION {[1..k -> NickAlphabet] : k \in 0..MaxNickInput}

\* a valid nick one character longer than the RFC 1459 default
LongNick == [i \in 1..(DefaultNickLen + 1) |-> "a"]

Probes ==
    [called : {FALSE}, nick : NickStrings \cup {LongNick}, throwOnInvalid : BOOLEAN,
     client : BOOLEAN, len : NickLengths]

\* the call returns or throws
Validate ==
    /\ ~probe.called
    /\ probe' = [called |-> TRUE, nick |-> probe.nick,
                 throwOnInvalid |-> probe.throwOnInvalid,
                 client |-> probe.client, len |-> probe.len,
                 res |-> GetValidNick(probe.nick, probe.throwOnInvalid,
                                      probe.client, probe.len)]
    /\ UNCHANGED <<pcConnect, inst, sockOpen, unsafeClient, connectDefer,
                   instCreationFailed, explicitDisconnect, killed, nick, supported,
                   chanList, chans, joins, nickCalls, onError, onNick,
                   sentAfterKill, idleTimer, hooked, cfg, idleDisc, connects,
                   acts, ops, cache, lastLeave, staleTimers, lastDisc>>

\* the same nick is validated again in the same client state, with the
\* other value of throwOnInvalid
ValidateAgain ==
    /\ probe.called
    /\ "other" \notin DOMAIN probe
    /\ probe' = [called |-> TRUE, nick |-> probe.nick,
                 throwOnInvalid |-> probe.throwOnInvalid,
                 client |-> probe.client, len |-> probe.len,
                 res |-> probe.res,
                 other |-> GetValidNick(probe.nick, ~probe.throwOnInvalid,
                                        probe.client, probe.len)]
    /\ UNCHANGED <<pcConnect, inst, sockOpen, unsafeClient, connectDefer,
                   instCreationFailed, explicitDisconnect, killed, nick, supported,
                   chanList, chans, joins, nickCalls, onError, onNick,
                   sentAfterKill, idleTimer, hooked, cfg, idleDisc, connects,
                   acts, ops, cache, lastLeave, staleTimers, lastDisc>>

----------------------------------------------------------------------------
(* Specifications *)

SessionWith(outcomes) ==
    \/ Connect
    \/ ConnectCreate
    \/ \E o \in outcomes : ConnectSucceed(o.nick, o.len)
    \/ ConnectFail
    \/ Disconnect
    \/ Kill
    \/ UpstreamDisconnect
    \/ SocketClosed

SessionNext == SessionWith(ConnectOutcomes)

\* the nick and the NICKLEN play no part in a join
JoinSession == SessionWith({PlainOutcome})

JoinEvents ==
    \/ \E j \in 1..Len(joins) : JoinAfterConnect(j)
    \/ \E c \in Channels : JoinCallback(c)
    \/ \E c \in Channels : ServerJoined(c)
    \/ \E c \in Channels : ServerParted(c)
    \/ \E c \in Channels : LeaveChannel(c)

JoinNext ==
    \/ \E c \in Channels : JoinChannel(c)
    \/ \E j \in 1..Len(joins) : JoinTimer(j)
    \/ JoinEvents

\* one public joinChannel call at most waits or issues JOINs: its retries
\* are bounded by the code alone
OneJoinNext ==
    \/ \E c \in Channels : JoinChannelIn(c, MaxAttempts + 1, 1)
    \/ \E j \in 1..Len(joins) : JoinTimerIn(j, MaxAttempts + 1)
    \/ JoinEvents

NickNext ==
    \/ \E n \in NickInputs, t \in BOOLEAN : ChangeNick(n, t)
    \/ \E n \in 1..Len(nickCalls) : NickTimeout(n)
    \/ \E e \in NickEvents : UpstreamNick(e[1], e[2])

EventNext == \E e \in ErrEvents : UpstreamError(e)

Next == SessionNext \/ JoinNext \/ NickNext \/ EventNext

Spec == Init /\ [][Next]_vars

\* the session with its joins only
SpecJoin == Init /\ [][JoinSession \/ JoinNext \/ EventNext]_vars

\* the session with one joinChannel call and all its retries
SpecOneJoin == Init /\ [][JoinSession \/ OneJoinNext \/ EventNext]_vars

\* the session with its nick changes only
SpecNick == Init /\ [][SessionNext \/ NickNext \/ EventNext]_vars

\* the channels joined and left: a network-wide and a server-local one
LeaveRooms == {ChA, ChAmp}

LeaveNext ==
    \/ \E c \in LeaveRooms : JoinChannel(c)
    \/ \E j \in 1..Len(joins) : JoinAfterConnect(j)
    \/ \E j \in 1..Len(joins) : JoinTimer(j)
    \/ \E c \in LeaveRooms : JoinCallback(c)
    \/ \E c \in LeaveRooms : ServerJoined(c)
    \/ \E c \in LeaveRooms : ServerParted(c)
    \/ \E c \in LeaveRooms : LeaveObserved(c)

\* the session with joins and leaves of both kinds of channel
SpecLeave == Init /\ [][JoinSession \/ LeaveNext]_vars

\* a server with an idle timeout
IdleSecs == 1

InitIdle ==
    /\ Constructed
    /\ cfg \in [isBot : BOOLEAN, mirror : BOOLEAN, idleTimeout : {0, IdleSecs},
                 expiry : {0}]
    /\ probe = NoProbe

\* the actions that keep the session alive, and the expiry of the timer
IdleNext ==
    \/ \E t \in {"message", "sticker"} : SendAction(t, Dm, FALSE)
    \/ \E a \in 1..Len(acts) : ActJoin(a)
    \/ \E a \in 1..Len(acts) : ActDone(a, FALSE)
    \/ IdleExpiry

\* the session of a user or of the bot, with its idle timer
SpecIdle == InitIdle /\ [][JoinSession \/ IdleNext]_vars

\* a nick with a # inside, which the server takes for a user
DmHash == <<"b", "#">>

\* the targets joined: a nick, and a nick with a # inside
TargetRooms == {Dm, DmHash}

TargetNext ==
    \/ \E c \in TargetRooms : JoinChannel(c)
    \/ \E j \in 1..Len(joins) : JoinAfterConnect(j)
    \/ \E j \in 1..Len(joins) : JoinTimer(j)
    \/ \E c \in TargetRooms : LeaveChannel(c)

\* the session with joins of direct-message targets
SpecTargets == Init /\ [][JoinSession \/ TargetNext]_vars

\* the lifecycle calls, and the upstream disconnects with their reasons
DisconnectSession ==
    \/ Connect
    \/ ConnectCreate
    \/ ConnectSucceed(PlainOutcome.nick, PlainOutcome.len)
    \/ ConnectFail
    \/ Disconnect
    \/ Kill
    \/ \E reason \in DisconnectReasons : UpstreamDisconnectFor(reason)
    \/ SocketClosed

\* the session with its idle timer and the ends of its connection
SpecDisconnect == InitIdle /\ [][DisconnectSession \/ IdleNext]_vars

\* a server with an expiry window
ExpirySecs == 1

InitSend ==
    /\ Constructed
    /\ cfg \in {PlainConfig, [PlainConfig EXCEPT !.expiry = ExpirySecs]}
    /\ probe = NoProbe

\* rooms the actions are sent to: a channel and a private conversation
SendRooms == {ChA, Dm}

\* the error the server answers a JOIN of the channel with
JoinRefused == [command |-> "err_bannedfromchan", hasArgs |-> TRUE, args |-> <<ChA>>]

\* the lifecycle calls made around the actions
SendSession ==
    \/ Connect
    \/ ConnectCreate
    \/ ConnectSucceed(PlainOutcome.nick, PlainOutcome.len)
    \/ ConnectFail
    \/ Disconnect
    \/ Kill

SendNext ==
    \/ \E t \in ActionTypes, c \in SendRooms, ts \in BOOLEAN : SendAction(t, c, ts)
    \/ \E a \in 1..Len(acts) : ActJoin(a)
    \/ \E a \in 1..Len(acts), passed \in BOOLEAN : ActDone(a, passed)
    \/ \E j \in 1..Len(joins) : JoinAfterConnect(j)
    \/ \E j \in 1..Len(joins) : JoinTimer(j)
    \/ \E c \in SendRooms : JoinCallback(c)
    \/ \E c \in SendRooms : ServerJoined(c)

\* the session with its sendAction calls and the joins they make
SpecSend == InitSend /\ [][SendSession \/ SendNext \/ UpstreamError(JoinRefused)]_vars

\* the calls made on a session that is connected more than once
ReconnectNext ==
    \/ ConnectAgain
    \/ JoinChannel(ChA)
    \/ \E j \in 1..Len(joins) : JoinAfterConnect(j)
    \/ JoinCallback(ChA)
    \/ ServerJoined(ChA)
    \/ LeaveChannel(ChA)

\* the session with joins of one channel, where connect() may be called again
SpecReconnect == Init /\ [][SessionNext \/ ReconnectNext]_vars

InitValidate ==
    /\ Constructed
    /\ cfg = PlainConfig
    /\ probe \in Probes

\* one call of _getValidNick, over all its inputs
SpecValidate == InitValidate /\ [][Validate \/ ValidateAgain]_vars

\* the channel whose operators are asked for
OpRooms == {ChA}

OpsNext ==
    \/ \E c \in OpRooms, cached \in BOOLEAN : GetOperators(c, cached)
    \/ \E o \in 1..Len(ops) : OpJoined(o)
    \/ \E o \in 1..Len(ops) : OpNames(o)
    \/ \E o \in 1..Len(ops) : OpNamesTimeout(o)
    \/ \E o \in 1..Len(ops), prefixed \in BOOLEAN : OpLeft(o, prefixed)
    \/ \E o \in 1..Len(ops) : CacheTimer(o)
    \/ \E j \in 1..Len(joins) : JoinAfterConnect(j)
    \/ \E j \in 1..Len(joins) : JoinTimer(j)
    \/ \E c \in OpRooms : JoinCallback(c)
    \/ \E c \in OpRooms : ServerJoined(c)

\* the session with its getOperators calls and the joins they make
SpecOps == Init /\ [][SendSession \/ OpsNext \/ UpstreamError(JoinRefused)]_vars

\* getOperators calls on a session whose user joins the channel as well
MemberNext ==
    \/ OpsNext
    \/ \E c \in OpRooms : JoinChannel(c)

\* the session with joinChannel calls and getOperators calls
SpecMember == Init /\ [][SendSession \/ MemberNext]_vars

\* one joinChannel call under the scheduling the code relies on: the connect
\* attempt ends, the continuations of the connect-ready promise run, armed
\* round timers fire
SpecOneJoinFair ==
    /\ SpecOneJoin
    /\ WF_vars(ConnectCreate)
    /\ WF_vars(ConnectSucceed(PlainOutcome.nick, PlainOutcome.len) \/ ConnectFail)
    /\ \A j \in 1..MaxAttempts :
          WF_vars(j <= Len(joins) /\ JoinAfterConnect(j))
    /\ \A j \in 1..MaxAttempts :
          WF_vars(j <= Len(joins) /\ JoinTimerIn(j, MaxAttempts + 1))

----------------------------------------------------------------------------
(* Properties of sendAction *)

\* C11: an action whose deadline had passed when its join had settled is
\* not dispatched and its sendAction call resolves, whatever its type
\* (message, notice, emote, topic).
C11_ExpiredNeverDispatched ==
    \A a \in 1..Len(acts) :
        acts[a].late => (acts[a].sent = "" /\ acts[a].st = "resolved")

\* an action has been dispatched on a connected session after its join
ActDispatched(a) ==
    /\ acts[a].sent # ""
    /\ acts[a].join # 0

\* the join of an action was rejected and the action has ended
ActJoinRejected(a) ==
    /\ acts[a].st # "joining"
    /\ ActJoinState(a) = "rejected"

\* C12: no JOIN and no action is dispatched before the connect has
\* resolved; an action is dispatched only once its implicit join has
\* resolved; if that join rejects nothing is dispatched and the sendAction
\* call rejects.
C12_ConnectThenJoinThenDispatch ==
    /\ \A j \in 1..Len(joins) : joins[j].sent => connectDefer = "resolved"
    /\ \A a \in 1..Len(acts) :
          /\ acts[a].sent # "" =>
                (connectDefer = "resolved" /\ ActJoinState(a) = "resolved")
          /\ ActJoinRejected(a) => (acts[a].sent = "" /\ acts[a].st = "rejected")

C12_Witness ==
    \E a \in 1..Len(acts) : ActDispatched(a) /\ joins[acts[a].join].sent

----------------------------------------------------------------------------
(* Properties of leaveChannel *)

\* "c begins with any one of '#', '!', '&', '+'"
HasChannelPrefix(c) == Len(c) > 0 /\ c[1] \in {"#", "!", "&", "+"}

\* C13: leaveChannel(c) on a live connection, for a c in chanList that
\* begins with one of # ! & +, removes c from chanList (and sends PART).
C13_LeaveRemovesChannel ==
    (lastLeave.called /\ lastLeave.live /\ lastLeave.tracked
        /\ HasChannelPrefix(lastLeave.chan))
    => (lastLeave.removed /\ lastLeave.part)

----------------------------------------------------------------------------
(* Properties of the idle timer *)

\* the disconnect() call of an idle expiry, by the seconds in its reason
IdleReason == cfg.idleTimeout

\* C14: when the armed idle timer fires, disconnect is called once, with
\* the reason naming the idle timeout, iff the session is not the bot and
\* the server does not mirror the initial membership; otherwise the expiry
\* changes nothing of the session.  Without idle timeout no timer is ever
\* armed and no idle disconnect happens.
C14_IdleExpiryPolicy ==
    /\ [](cfg.idleTimeout = 0 => (idleTimer = "none" /\ idleDisc = << >>))
    /\ [][(idleTimer = "armed" /\ idleTimer' = "fired") =>
            IF cfg.isBot \/ cfg.mirror
            THEN UNCHANGED <<pcConnect, inst, sockOpen, unsafeClient, connectDefer,
                             instCreationFailed, explicitDisconnect, killed, nick,
                             supported, chanList, chans, joins, nickCalls, onError,
                             onNick, sentAfterKill, hooked, extraVars>>
            ELSE /\ idleDisc' = Append(idleDisc, IdleReason)
                 /\ explicitDisconnect'
                 /\ inst' # "live"]_vars

C14_Witness ==
    /\ idleTimer = "fired"
    /\ idleDisc = <<IdleSecs>>
    /\ inst = "dead"

\* C15: after a disconnect() or kill() call no idle timer is armed,
\* whatever the state of the connection at the call.
C15_DisconnectCancelsIdle ==
    [][(Disconnect \/ Kill) => idleTimer' # "armed"]_vars

----------------------------------------------------------------------------
(* Properties of getOperators *)

\* C16: an entry of the operator cache is removed only by the invalidation
\* timer of the call that stored it, never by the timer of an earlier call.
C16_EntryRemovedByOwnTimer ==
    [][\A c \in OpRooms :
          (cache[c] # 0 /\ cache'[c] = 0)
              => (ops[cache[c]].timer = "armed" /\ ops'[cache[c]].timer = "fired")]_vars

\* C17: a getOperators call that missed the cache, for a channel that was
\* not in chanList at the call, leaves the channel out of chanList when it
\* settles, resolved or rejected.
C17_TransientJoin ==
    \A o \in 1..Len(ops) :
        (Settled(ops[o].st) /\ ops[o].hit = 0 /\ ~ops[o].wasIn) => ~ops[o].inAfter

----------------------------------------------------------------------------
(* Properties of connect *)

\* C18: after a failed connect() instCreationFailed is set, the connection
\* instance and the raw client are unset, the connect-ready promise is
\* unresolved, the idle timer is not armed and nothing installed by
\* _onConnectionCreated is still attached.
C18_FailedConnectLeavesNothing ==
    pcConnect = "failed" =>
        /\ instCreationFailed
        /\ inst = "none"
        /\ ~unsafeClient
        /\ connectDefer = "pending"
        /\ idleTimer # "armed"
        /\ ~hooked

\* C19 as stated: once isDead() is true it is true in every later state,
\* in every execution.
C19_IsDeadMonotonic ==
    [][IsDead => IsDead']_vars

\* C19: in an execution with one connect() call, once isDead() is true it
\* is true in every later state.
C19_IsDeadMonotonicOneConnect ==
    [][(IsDead /\ connects' <= 1) => IsDead']_vars

C19_Witness ==
    /\ IsDead
    /\ connects = 1
    /\ killed
    /\ ~sockOpen
    /\ Len(joins) > 0

----------------------------------------------------------------------------
(* Properties of _getValidNick *)

\* C20: _getValidNick(nick, false) returns, for every nick, a string that
\* starts with a letter, holds only characters of the nick alphabet and,
\* when the raw client is set and advertises a NICKLEN, is no longer than it.
C20_ValidNickWellFormed ==
    (probe.called /\ ~probe.throwOnInvalid) =>
        /\ probe.res.ok
        /\ StartsWithLetter(probe.res.val)
        /\ \A i \in 1..Len(probe.res.val) : IsLegalChar(probe.res.val[i])
        /\ (probe.client /\ probe.len.has) => Len(probe.res.val) <= probe.len.n

C20_Witness ==
    /\ probe.called
    /\ ~probe.throwOnInvalid
    /\ probe.client
    /\ probe.len.has
    /\ probe.nick = <<"1", "!", "a", "_">>
    /\ Len(probe.res.val) = probe.len.n
    /\ probe.res.val[1] = "M"

\* the nick handed in breaks none of the rules on characters
WellFormedNick(n) ==
    /\ StartsWithLetter(n)
    /\ \A i \in 1..Len(n) : IsLegalChar(n[i])

\* C21: without a raw client, or with one that advertises no NICKLEN, no
\* length check is made: a nick that is otherwise valid is returned
\* unchanged, and accepted when throwOnInvalid is set, whatever its length.
C21_NoLengthCheckWithoutNicklen ==
    (probe.called /\ WellFormedNick(probe.nick)
        /\ (~probe.client \/ ~probe.len.has))
    => (probe.res.ok /\ probe.res.val = probe.nick)

\* the two results of a nick validated with and without throwOnInvalid
BothValidated == probe.called /\ "other" \in DOMAIN probe
StrictResult == IF probe.throwOnInvalid THEN probe.res ELSE probe.other
LaxResult == IF probe.throwOnInvalid THEN probe.other ELSE probe.res

\* the first rule a nick breaks that is not returned unchanged: illegal
\* characters, letter start, length
FirstRuleBroken(n) ==
    IF \E i \in 1..Len(n) : ~IsLegalChar(n[i]) THEN "contains illegal characters"
    ELSE IF ~StartsWithLetter(n) THEN "must start with a letter"
    ELSE "is too long"

\* C22: in the same client state the throwing call returns the nick
\* unchanged exactly when the coercing call returns it unchanged, and
\* otherwise throws the error of the first rule broken.
C22_StrictAgreesWithLax ==
    BothValidated =>
        /\ StrictResult.ok <=> (LaxResult.ok /\ LaxResult.val = probe.nick)
        /\ StrictResult.ok => StrictResult.val = probe.nick
        /\ ~StrictResult.ok => StrictResult.err = FirstRuleBroken(probe.nick)

C22_Witness ==
    /\ BothValidated
    /\ probe.nick = <<"1", "!">>
    /\ ~StrictResult.ok
    /\ LaxResult.val = <<"M", "1">>

\* idle timers armed: the one this._idleTimeout names and the stale ones
ArmedIdleTimers == staleTimers + (IF idleTimer = "armed" THEN 1 ELSE 0)

\* C25: at most one idle timer is armed at any time; every sendAction and
\* every successful connect leaves a freshly armed timer where the server
\* has an idle timeout; a timer fires only while armed, so at most once.
C25_OneIdleTimer ==
    /\ [](ArmedIdleTimers <= 1)
    /\ [][((Len(acts') > Len(acts) \/ (pcConnect = "connecting" /\ pcConnect' = "done"))
             /\ cfg.idleTimeout > 0) => idleTimer' = "armed"]_vars
    /\ [][(idleTimer' = "fired" /\ idleTimer # "fired") => idleTimer = "armed"]_vars

C25_Witness ==
    /\ idleTimer = "armed"
    /\ pcConnect = "done"
    /\ Len(acts) > 0
    /\ idleDisc # << >>

\* C26: when connInst.onDisconnect(reason) emits client-disconnected the
\* reason is recorded and, for "banned", explicitDisconnect is set; the
\* status line follows the emit and the idle timer is cleared after both.
\* explicitDisconnect, once true, stays true.
C26_DisconnectHandlerOrder ==
    /\ [](lastDisc.called =>
            /\ Len(lastDisc.out) = 2
            /\ lastDisc.out[1].ev = "client-disconnected"
            /\ lastDisc.out[1].at.disconnectReason = lastDisc.reason
            /\ lastDisc.reason = "banned" => lastDisc.out[1].at.explicitDisconnect
            /\ lastDisc.out[2].ev = "metadata"
            /\ \A k \in 1..2 : lastDisc.out[k].at.idleTimer = lastDisc.before
            /\ lastDisc.final.idleTimer # "armed"
            /\ lastDisc.final.disconnectReason = lastDisc.reason)
    /\ [][explicitDisconnect => explicitDisconnect']_vars

C26_Witness ==
    /\ lastDisc.called
    /\ lastDisc.reason = "banned"
    /\ lastDisc.before = "armed"
    /\ ~killed
    /\ explicitDisconnect
    /\ idleTimer = "cleared"

----------------------------------------------------------------------------
(* Properties of getOperators on a joined channel *)

\* C27: a getOperators call on a channel that was in chanList and in the
\* raw client's channel set when it was made leaves the channel in chanList
\* when it settles, and has sent no PART for it.
C27_MembershipPreserved ==
    \A o \in 1..Len(ops) :
        (Settled(ops[o].st) /\ ops[o].wasJoined) =>
            (ops[o].inAfter /\ ~ops[o].part)

----------------------------------------------------------------------------
(* Properties of the session's state *)

\* C23: whenever the raw-client handle is set, the connection instance
\* exists and is not dead.
C23_ClientOnlyWhileLive ==
    unsafeClient => inst = "live"

\* C24: chanList holds only names that begin with one of # ! & +.
C24_ChanListHoldsChannels ==
    \A i \in 1..Len(chanList) : HasChannelPrefix(chanList[i])

\* a _joinChannel invocation for c has not settled yet
JoinPending(c) ==
    \E j \in 1..Len(joins) : joins[j].chan = c /\ ~Settled(joins[j].st)

\* C28: every channel in chanList is in the raw client's channel set or
\* has a join still pending.
C28_ChanListJoinedOrJoining ==
    \A i \in 1..Len(chanList) : chanList[i] \in chans \/ JoinPending(chanList[i])

----------------------------------------------------------------------------
(* Properties *)

\* C1: once kill() has been called the raw-client handle stays cleared and
\* no command is sent on the raw client any more.
C1_KillBlocksEverything ==
    killed => (~unsafeClient /\ ~sentAfterKill)

\* C2: every public joinChannel call that has issued a JOIN eventually
\* resolves or rejects, given that its round timers fire.
C2_JoinAlwaysSettles ==
    \A j \in 1..MaxAttempts :
        (j <= Len(joins) /\ joins[j].parent = 0 /\ joins[j].sent)
            ~> (j <= Len(joins) /\ Settled(joins[j].st))

\* C3: a joinChannel call queued on the connect-ready promise while connect()
\* is in flight eventually leaves the queue, whether the connect succeeds
\* (it proceeds) or fails (it is rejected).
C3_QueuedCallsLeaveTheQueue ==
    \A j \in 1..MaxAttempts :
        (j <= Len(joins) /\ joins[j].st = "queued" /\ pcConnect = "connecting")
            ~> (j <= Len(joins) /\ joins[j].st # "queued")

\* C4: whenever the raw client emits an error with a join fail code whose args
\* contain c, every pending invocation that issued a JOIN of c is rejected
\* with the error's command, and join-error and the force-notice status line
\* are emitted in that step, whatever errors were emitted before.
C4_JoinHardFailure ==
    [][\A e \in ErrEvents : \A j \in 1..Len(joins) :
          (/\ UpstreamError(e)
           /\ joins[j].sent
           /\ joins[j].st = "pending"
           /\ e.hasArgs
           /\ e.command \in JoinFailCodes
           /\ ArgsContain(e, joins[j].chan))
          => (/\ joins'[j].st = "rejected"
              /\ joins'[j].how = e.command
              /\ \E i \in 1..Len(joins) : joins'[i].told /\ ~joins[i].told)]_vars

\* the round timer of invocation j fires in this step
TimerFires(j) ==
    /\ joins[j].timer = "armed"
    /\ joins[j].st = "pending"
    /\ joins'[j].timer = "fired"

\* C5: when the round timer of a pending invocation fires, its JOIN callback
\* has not been called and the raw client's channel set contains the channel,
\* the invocation resolves in that step and no retry is started.
C5_SilentSuccess ==
    [][\A j \in 1..Len(joins) :
          (TimerFires(j) /\ joins[j].cb /\ joins[j].chan \in chans)
          => (/\ joins'[j].st = "resolved"
              /\ Len(joins') = Len(joins))]_vars

\* C6: no invocation has an attempt count above 5; when the round timer fires
\* for attempt 5, the invocation pending and the channel absent from the raw
\* client's channel set, the invocation is rejected with "multiple tries" and
\* no retry is started; an invocation that started a retry and is settled has
\* the retry's outcome.
C6_RetryBound ==
    [][/\ \A j \in 1..Len(joins) : joins[j].attempt <= MaxAttempts
       /\ \A j \in 1..Len(joins) :
             (TimerFires(j) /\ joins[j].attempt = MaxAttempts
                  /\ joins[j].chan \notin chans)
             => (/\ joins'[j].st = "rejected"
                 /\ joins'[j].how = "multiple tries"
                 /\ Len(joins') = Len(joins))
       /\ \A j \in 1..Len(joins) : \A k \in 1..Len(joins) :
             (joins[k].parent = j /\ Settled(joins[j].st))
             => (joins[k].st = joins[j].st /\ joins[k].how = joins[j].how)]_vars

\* a public joinChannel(c) call was made and waited or issued a JOIN
FirstCalled(c) ==
    \E j \in 1..Len(joins) : joins[j].parent = 0 /\ joins[j].chan = c

\* a public joinChannel(c) call has resolved
FirstResolved(c) ==
    \E j \in 1..Len(joins) :
        joins[j].parent = 0 /\ joins[j].chan = c /\ joins[j].st = "resolved"

\* a joinChannel(c) step that settles at once as resolved and leaves no trace:
\* no invocation, no listener, no timer, no JOIN
ResolvesAtOnce(c) ==
    /\ joins' = joins
    /\ onError' = onError
    /\ chanList' = chanList
    /\ JoinImmediate(JoinRoute(c)).st = "resolved"

\* C7 as stated: a joinChannel(c) that follows an earlier joinChannel(c)
\* resolves at once and issues no JOIN.
C7_SecondJoinAsStated ==
    [][\A c \in Channels :
          (FirstCalled(c) /\ JoinChannel(c)) => ResolvesAtOnce(c)]_vars

\* C7, amended: a channel is in the raw client's channel set when a public
\* joinChannel of it resolves; and a joinChannel(c) that follows a resolved
\* joinChannel(c), made while the raw-client handle is set and c, if a channel
\* name, is still in the raw client's channel set, resolves at once and
\* issues no JOIN.
C7_SecondJoinAfterResolved ==
    [][/\ \A j \in 1..Len(joins) :
             (/\ joins[j].st # "resolved"
              /\ joins'[j].st = "resolved"
              /\ joins[j].parent = 0
              /\ IsChannelName(joins[j].chan))
             => joins[j].chan \in chans'
       /\ unsafeClient =>
             \A c \in Channels :
                 (/\ FirstResolved(c)
                  /\ IsChannelName(c) => c \in chans)
                 => (ResolvesAtOnce(c) \/ ~JoinChannel(c))]_vars

\* a second joinChannel(c) can be made after the first resolved through its
\* JOIN, with the session still in the channel
C7_Witness ==
    \E j \in 1..Len(joins) :
        /\ joins[j].parent = 0
        /\ joins[j].sent
        /\ joins[j].st = "resolved"
        /\ unsafeClient
        /\ joins[j].chan \in chans
        /\ Len(joins) < MaxJoins

\* C8: a changeNick call that has settled has neither of its one-shot
\* listeners attached and its timer is not armed; and a call whose timer was
\* cleared or has fired has settled.
C8_NickCallCleansUp ==
    \A n \in 1..Len(nickCalls) :
        /\ Settled(nickCalls[n].st)
              => (/\ ~InSeq(onNick, n)
                  /\ ~InSeq(onError, NickL(n))
                  /\ nickCalls[n].timer # "armed")
        /\ nickCalls[n].timer # "armed" => Settled(nickCalls[n].st)

\* C9: a changeNick call resolved by a nick event was resolved by the
\* session's own change from its old nick to the validated new nick, and
\* the session's nick was the new nick then.
C9_ResolvedByOwnNickChange ==
    \A n \in 1..Len(nickCalls) :
        (nickCalls[n].st = "resolved" /\ nickCalls[n].by = "nick")
            => nickCalls[n].own

\* C10: whenever the raw client of a live session emits an error with a nick
\* fail code, every pending changeNick call is rejected with that command and
\* its timer is cleared, whatever errors were emitted before.
C10_NickFailCodeRejects ==
    [][\A e \in ErrEvents : \A n \in 1..Len(nickCalls) :
          (/\ UpstreamError(e)
           /\ unsafeClient
           /\ nickCalls[n].st = "pending"
           /\ e.command \in NickFailCodes)
          => (/\ nickCalls'[n].st = "rejected"
              /\ nickCalls'[n].by = "error"
              /\ nickCalls'[n].err = e.command
              /\ nickCalls'[n].timer = "cleared")]_vars

====
